---- MODULE Spec2Model ----
(***************************************************************************)
(* A model of gen_blas.py: the operation table (make_ops), the argument    *)
(* renderers, and the three generated layers whose behaviour the table     *)
(* drives: the simplified surface GpuArray_r<op> (ARRAYBLAS_TMPL), the     *)
(* high-level binding def <op> (BLAS_PYX_TMPL) and the rendered argument   *)
(* lists of the low-level surfaces.                                        *)
(***************************************************************************)
EXTENDS Integers, Sequences, FiniteSets, TLC

VARIABLES
    op,        \* name of the operation being called or rendered
    arg,       \* the call's arguments as the caller passed them
    pc,        \* position in GpuArray_r<op>
    transA,    \* parameter transA of the running call (setup_order rewrites it)
    transB,    \* parameter transB of the running call
    ptr,       \* <name>p of each array argument: "orig" or "copy"
    copy,      \* the locals copy<name>
    heap,      \* per array argument: [allocs, clears] of its fallback copy
    sz,        \* the locals m, n, k, lda, ldb, ldc
    o,         \* the local o
    err,       \* the local err, and at pc = "done" the value returned
    env,       \* what the runtime answered to each call made so far
    backend,   \* the calls of the dispatch-table entry, with their arguments
    py,        \* the frame of the high-level binding def <op>
    rendered   \* the argument lists rendered so far, per (operation, type)

vars == <<op, arg, pc, transA, transB, ptr, copy, heap, sz, o, err, env,
          backend, py, rendered>>

-----------------------------------------------------------------------------
(* Bounds *)

\* largest dimension of an array argument
MaxDim == 2

-----------------------------------------------------------------------------
(* The argument classes, lines 30-137.  A name is the sequence of its       *)
(* characters, so that name[-1] and name.lower() are computed.              *)

NoDefault == "nodefault"

scalar(nm, pydef) ==
    [cls |-> "scalar", name |-> nm, output |-> FALSE, pydef |-> pydef]

size(nm) ==
    [cls |-> "size", name |-> nm, output |-> FALSE, pydef |-> NoDefault]

inc(nm) ==
    [cls |-> "inc", name |-> nm, output |-> FALSE, pydef |-> NoDefault]

trans(nm) ==
    [cls |-> "trans", name |-> nm, output |-> FALSE, pydef |-> NoDefault]

matrix(nm, output) ==
    [cls |-> "matrix", name |-> nm, output |-> output,
     pydef |-> IF output THEN "None" ELSE NoDefault]

vector(nm, output) ==
    [cls |-> "vector", name |-> nm, output |-> output,
     pydef |-> IF output THEN "None" ELSE NoDefault]

ismatrix(a) == a.cls = "matrix"

isarray(a) == a.cls \in {"matrix", "vector"}

\* the two Dtype instances: name and symbol letter
float == [name |-> "float", c |-> "s"]

double == [name |-> "double", c |-> "d"]

OpNames == {"gemv", "gemm", "ger"}

\* make_ops(): the ordered arguments of each operation
make_ops ==
    [x \in OpNames |->
       CASE x = "gemv" ->
              [name |-> "gemv", types |-> <<float, double>>,
               arguments |->
                 << trans(<<"t","r","a","n","s","A">>), size(<<"M">>), size(<<"N">>),
                    scalar(<<"a","l","p","h","a">>, NoDefault),
                    matrix(<<"A">>, FALSE), size(<<"l","d","a">>),
                    vector(<<"X">>, FALSE), inc(<<"i","n","c","X">>),
                    scalar(<<"b","e","t","a">>, "0.0"), vector(<<"Y">>, TRUE),
                    inc(<<"i","n","c","Y">>) >>]
         [] x = "gemm" ->
              [name |-> "gemm", types |-> <<float, double>>,
               arguments |->
                 << trans(<<"t","r","a","n","s","A">>), trans(<<"t","r","a","n","s","B">>),
                    size(<<"M">>), size(<<"N">>), size(<<"K">>),
                    scalar(<<"a","l","p","h","a">>, NoDefault),
                    matrix(<<"A">>, FALSE), size(<<"l","d","a">>),
                    matrix(<<"B">>, FALSE), size(<<"l","d","b">>),
                    scalar(<<"b","e","t","a">>, NoDefault),
                    matrix(<<"C">>, TRUE), size(<<"l","d","c">>) >>]
         [] x = "ger" ->
              [name |-> "ger", types |-> <<float, double>>,
               arguments |->
                 << size(<<"M">>), size(<<"N">>),
                    scalar(<<"a","l","p","h","a">>, NoDefault),
                    vector(<<"X">>, FALSE), inc(<<"i","n","c","X">>),
                    vector(<<"Y">>, FALSE), inc(<<"i","n","c","Y">>),
                    matrix(<<"A">>, TRUE), size(<<"l","d","a">>) >>]]

OPS == make_ops

matrix_args(x) == SelectSeq(OPS[x].arguments, ismatrix)

array_args(x) == SelectSeq(OPS[x].arguments, isarray)

has_order(x) == \E i \in 1..Len(OPS[x].arguments) : ismatrix(OPS[x].arguments[i])

\* the position among array_args(x) of the array argument named nm
Ix(x, nm) == CHOOSE i \in 1..Len(array_args(x)) : array_args(x)[i].name = <<nm>>

ArrayIx == 1..3

-----------------------------------------------------------------------------
(* Values of the C layer *)

GA_NO_ERROR == "GA_NO_ERROR"
GA_VALUE_ERROR == "GA_VALUE_ERROR"
GA_INVALID_ERROR == "GA_INVALID_ERROR"
GA_UNALIGNED_ERROR == "GA_UNALIGNED_ERROR"
GA_COPY_ERROR == "GA_COPY_ERROR"
\* what a failing call into the runtime or the backend answers
GA_MEMORY_ERROR == "GA_MEMORY_ERROR"
GA_DEVSUP_ERROR == "GA_DEVSUP_ERROR"
GA_BLAS_ERROR == "GA_BLAS_ERROR"

GA_FLOAT == "GA_FLOAT"
GA_DOUBLE == "GA_DOUBLE"
GA_INT == "GA_INT"
TypeCodes == {GA_FLOAT, GA_DOUBLE, GA_INT}

GA_C_CONTIGUOUS == "GA_C_CONTIGUOUS"
GA_F_CONTIGUOUS == "GA_F_CONTIGUOUS"
GA_ALIGNED == "GA_ALIGNED"

cb_c == "cb_row"
cb_fortran == "cb_column"

cb_no_trans == "cb_no_trans"
cb_trans == "cb_trans"
cb_conj_trans == "cb_conj_trans"
cb_transpose == {cb_no_trans, cb_trans, cb_conj_trans}

Undef == "undef"

\* a GpuArray: the fields the generated code reads.  onesegment is what
\* GpuArray_ISONESEGMENT answers, neg is strides[0] < 0, buf names the buffer.
GpuArray(buf, typecode, nd, dimensions, flags, onesegment, neg) ==
    [buf |-> buf, typecode |-> typecode, nd |-> nd, dimensions |-> dimensions,
     flags |-> flags, onesegment |-> onesegment, neg |-> neg]

-----------------------------------------------------------------------------
(* The operation-specific snippets, lines 202-365.  dimensions[0] of the    *)
(* source is dimensions[1] here.                                            *)

check_dims_gemv(A, X, Y, tA) ==
    LET m == IF tA = cb_no_trans THEN A.dimensions[1] ELSE A.dimensions[2]
        n == IF tA = cb_no_trans THEN A.dimensions[2] ELSE A.dimensions[1]
    IN  IF Y.dimensions[1] # m \/ X.dimensions[1] # n
        THEN [err |-> GA_VALUE_ERROR, m |-> m, n |-> n, k |-> Undef]
        ELSE [err |-> GA_NO_ERROR, m |-> A.dimensions[1], n |-> A.dimensions[2],
              k |-> Undef]

\* check_dims_gemm reading B as if transB were always cb_no_trans
check_dims_gemm_ignoring_transB(A, B, C, tA, tB) ==
    LET m == IF tA = cb_no_trans THEN A.dimensions[1] ELSE A.dimensions[2]
        k == IF tA = cb_no_trans THEN A.dimensions[2] ELSE A.dimensions[1]
        n == B.dimensions[2]
    IN  IF B.dimensions[1] # k
        THEN [err |-> GA_VALUE_ERROR, m |-> m, n |-> n, k |-> k]
        ELSE IF C.dimensions[1] # m \/ C.dimensions[2] # n
        THEN [err |-> GA_VALUE_ERROR, m |-> m, n |-> n, k |-> k]
        ELSE [err |-> GA_NO_ERROR, m |-> m, n |-> n, k |-> k]

check_dims_gemm(A, B, C, tA, tB) ==
    LET m == IF tA = cb_no_trans THEN A.dimensions[1] ELSE A.dimensions[2]
        k == IF tA = cb_no_trans THEN A.dimensions[2] ELSE A.dimensions[1]
        n == IF tB = cb_no_trans THEN B.dimensions[2] ELSE B.dimensions[1]
        inner == IF tB = cb_no_trans THEN B.dimensions[1] ELSE B.dimensions[2]
    IN  IF inner # k
        THEN [err |-> GA_VALUE_ERROR, m |-> m, n |-> n, k |-> k]
        ELSE IF C.dimensions[1] # m \/ C.dimensions[2] # n
        THEN [err |-> GA_VALUE_ERROR, m |-> m, n |-> n, k |-> k]
        ELSE [err |-> GA_NO_ERROR, m |-> m, n |-> n, k |-> k]

check_dims_ger(X, Y, A) ==
    LET m == X.dimensions[1]
        n == Y.dimensions[1]
    IN  IF A.dimensions[1] # m \/ A.dimensions[2] # n
        THEN [err |-> GA_VALUE_ERROR, m |-> m, n |-> n, k |-> Undef]
        ELSE [err |-> GA_NO_ERROR, m |-> m, n |-> n, k |-> Undef]

\* the flag rewrite written out four times in setup_order_gemm
Flip(t) == IF t = cb_no_trans THEN cb_trans ELSE cb_no_trans

\* setup_order_gemv and setup_order_ger are the same text
setup_order_gemv(Ap) ==
    IF GA_F_CONTIGUOUS \in Ap.flags
    THEN [err |-> GA_NO_ERROR, o |-> cb_fortran, lda |-> Ap.dimensions[1]]
    ELSE IF GA_C_CONTIGUOUS \in Ap.flags
    THEN [err |-> GA_NO_ERROR, o |-> cb_c, lda |-> Ap.dimensions[2]]
    ELSE [err |-> GA_VALUE_ERROR, o |-> Undef, lda |-> Undef]

setup_order_ger(Ap) ==
    IF GA_F_CONTIGUOUS \in Ap.flags
    THEN [err |-> GA_NO_ERROR, o |-> cb_fortran, lda |-> Ap.dimensions[1]]
    ELSE IF GA_C_CONTIGUOUS \in Ap.flags
    THEN [err |-> GA_NO_ERROR, o |-> cb_c, lda |-> Ap.dimensions[2]]
    ELSE [err |-> GA_VALUE_ERROR, o |-> Undef, lda |-> Undef]

\* setup_order_input with the flag rewritten for a column-major matrix only
setup_order_input_one_way(Mp, t, ord) ==
    IF GA_F_CONTIGUOUS \in Mp.flags
    THEN [err |-> GA_NO_ERROR, ld |-> Mp.dimensions[1],
          t |-> IF ord = cb_c THEN Flip(t) ELSE t]
    ELSE IF GA_C_CONTIGUOUS \in Mp.flags
    THEN [err |-> GA_NO_ERROR, ld |-> Mp.dimensions[2], t |-> t]
    ELSE [err |-> GA_VALUE_ERROR, ld |-> Undef, t |-> t]

\* setup_order_input with the leading dimension of a column-major matrix
\* read from dimensions[1]
setup_order_input_second_dimension(Mp, t, ord) ==
    IF GA_F_CONTIGUOUS \in Mp.flags
    THEN [err |-> GA_NO_ERROR, ld |-> Mp.dimensions[2],
          t |-> IF ord = cb_c THEN Flip(t) ELSE t]
    ELSE IF GA_C_CONTIGUOUS \in Mp.flags
    THEN [err |-> GA_NO_ERROR, ld |-> Mp.dimensions[2],
          t |-> IF ord = cb_fortran THEN Flip(t) ELSE t]
    ELSE [err |-> GA_VALUE_ERROR, ld |-> Undef, t |-> t]

\* one input matrix of setup_order_gemm (lines 282-301 for A, 302-321 for B):
\* its leading dimension and its rewritten flag under the order ord
setup_order_input(Mp, t, ord) ==
    IF GA_F_CONTIGUOUS \in Mp.flags
    THEN [err |-> GA_NO_ERROR, ld |-> Mp.dimensions[1],
          t |-> IF ord = cb_c THEN Flip(t) ELSE t]
    ELSE IF GA_C_CONTIGUOUS \in Mp.flags
    THEN [err |-> GA_NO_ERROR, ld |-> Mp.dimensions[2],
          t |-> IF ord = cb_fortran THEN Flip(t) ELSE t]
    ELSE [err |-> GA_VALUE_ERROR, ld |-> Undef, t |-> t]

setup_order_gemm(Ap, Bp, Cp, tA, tB) ==
    LET c == IF GA_F_CONTIGUOUS \in Cp.flags
             THEN [err |-> GA_NO_ERROR, o |-> cb_fortran, ld |-> Cp.dimensions[1]]
             ELSE IF GA_C_CONTIGUOUS \in Cp.flags
             THEN [err |-> GA_NO_ERROR, o |-> cb_c, ld |-> Cp.dimensions[2]]
             ELSE [err |-> GA_VALUE_ERROR, o |-> Undef, ld |-> Undef]
        a == setup_order_input(Ap, tA, c.o)
        b == setup_order_input(Bp, tB, c.o)
    IN  IF c.err # GA_NO_ERROR
        THEN [err |-> c.err, o |-> c.o, lda |-> Undef, ldb |-> Undef,
              ldc |-> c.ld, transA |-> tA, transB |-> tB]
        ELSE IF a.err # GA_NO_ERROR
        THEN [err |-> a.err, o |-> c.o, lda |-> a.ld, ldb |-> Undef,
              ldc |-> c.ld, transA |-> a.t, transB |-> tB]
        ELSE [err |-> b.err, o |-> c.o, lda |-> a.ld, ldb |-> b.ld,
              ldc |-> c.ld, transA |-> a.t, transB |-> b.t]

-----------------------------------------------------------------------------
(* GpuArray_r<op>, ARRAYBLAS_TMPL lines 568-673 *)

\* the array <name>p points to, for the i-th array argument
P(i) == IF ptr[i] = "copy" THEN copy[i] ELSE arg.arr[i]

\* the i-th array argument as the caller passed it, by its name in the snippets
Named(nm) == arg.arr[Ix(op, nm)]

NamedP(nm) == P(Ix(op, nm))

FallbackPc == <<"fallback1", "fallback2", "fallback3">>

AfterFallback(i) == IF i < Len(array_args(op)) THEN FallbackPc[i + 1] ELSE "order"

\* the fallback test asking for a column-major matrix instead of one segment
NeedsFallbackUnlessFortran(a, A) ==
    IF ismatrix(a) THEN GA_F_CONTIGUOUS \notin A.flags ELSE A.neg

\* the test of the contiguity fallback: line 613 for a matrix, 629 for a vector
NeedsFallback(a, A) == IF ismatrix(a) THEN ~A.onesegment ELSE A.neg

\* what a successful GpuArray_copy(&copy, A, GA_F_ORDER | GA_ANY_ORDER) leaves in
\* copy: a fresh aligned one-segment buffer of the same shape and type;
\* whether the column-major copy of a matrix also counts as row-major is the
\* runtime's business (cc)
CopyOf(i, A, cc) ==
    GpuArray(<<"copy", i>>, A.typecode, A.nd, A.dimensions,
             {GA_F_CONTIGUOUS, GA_ALIGNED} \cup (IF cc THEN {GA_C_CONTIGUOUS} ELSE {}),
             TRUE, FALSE)

Return(e) == pc' = "done" /\ err' = e

\* line 584
CheckTypecode ==
    /\ pc = "start"
    /\ IF arg.arr[1].typecode # GA_FLOAT /\ arg.arr[1].typecode # GA_DOUBLE
       THEN Return(GA_INVALID_ERROR)
       ELSE pc' = "rank" /\ UNCHANGED err
    /\ UNCHANGED <<op, arg, transA, transB, ptr, copy, heap, sz, o, env, backend,
                   py, rendered>>

\* the rank and type check answering GA_INVALID_ERROR
CheckRankAndTypeInvalid ==
    /\ pc = "rank"
    /\ IF \/ \E i \in 1..Len(array_args(op)) :
                arg.arr[i].nd # (IF ismatrix(array_args(op)[i]) THEN 2 ELSE 1)
          \/ \E i \in 1..Len(array_args(op)) :
                arg.arr[i].typecode # arg.arr[1].typecode
       THEN Return(GA_INVALID_ERROR)
       ELSE pc' = "align" /\ UNCHANGED err
    /\ UNCHANGED <<op, arg, transA, transB, ptr, copy, heap, sz, o, env, backend,
                   py, rendered>>

\* lines 600-602
CheckRankAndType ==
    /\ pc = "rank"
    /\ IF \/ \E i \in 1..Len(array_args(op)) :
                arg.arr[i].nd # (IF ismatrix(array_args(op)[i]) THEN 2 ELSE 1)
          \/ \E i \in 1..Len(array_args(op)) :
                arg.arr[i].typecode # arg.arr[1].typecode
       THEN Return(GA_VALUE_ERROR)
       ELSE pc' = "align" /\ UNCHANGED err
    /\ UNCHANGED <<op, arg, transA, transB, ptr, copy, heap, sz, o, env, backend,
                   py, rendered>>

\* lines 604-605
CheckAligned ==
    /\ pc = "align"
    /\ IF \E i \in 1..Len(array_args(op)) : GA_ALIGNED \notin arg.arr[i].flags
       THEN Return(GA_UNALIGNED_ERROR)
       ELSE pc' = "dims" /\ UNCHANGED err
    /\ UNCHANGED <<op, arg, transA, transB, ptr, copy, heap, sz, o, env, backend,
                   py, rendered>>

\* line 607: the operation's check_dims snippet, on the arrays as passed
check_dims ==
    CASE op = "gemv" -> check_dims_gemv(Named("A"), Named("X"), Named("Y"), transA)
      [] op = "gemm" -> check_dims_gemm(Named("A"), Named("B"), Named("C"),
                                        transA, transB)
      [] op = "ger"  -> check_dims_ger(Named("X"), Named("Y"), Named("A"))

CheckDims ==
    /\ pc = "dims"
    /\ LET r == check_dims
       IN  IF r.err # GA_NO_ERROR
           THEN Return(r.err) /\ UNCHANGED sz
           ELSE /\ pc' = FallbackPc[1]
                /\ sz' = [sz EXCEPT !.m = r.m, !.n = r.n, !.k = r.k]
                /\ UNCHANGED err
    /\ UNCHANGED <<op, arg, transA, transB, ptr, copy, heap, o, env, backend,
                   py, rendered>>

\* a fallback that keeps one copy at a time: the copy made for an earlier
\* array is cleared when the next one is made
FallbackOneCopyAtATime(i) ==
    /\ pc = FallbackPc[i]
    /\ i <= Len(array_args(op))
    /\ LET a == array_args(op)[i]
           A == arg.arr[i]
       IN  IF ~NeedsFallback(a, A)
           THEN /\ pc' = AfterFallback(i)
                /\ UNCHANGED <<err, ptr, copy, heap, env>>
           ELSE IF a.output
           THEN /\ err' = GA_VALUE_ERROR
                /\ pc' = "cleanup"
                /\ UNCHANGED <<ptr, copy, heap, env>>
           ELSE IF arg.nocopy
           THEN /\ Return(GA_COPY_ERROR)
                /\ UNCHANGED <<ptr, copy, heap, env>>
           ELSE \E r \in {GA_NO_ERROR, GA_MEMORY_ERROR}, cc \in BOOLEAN :
                /\ ismatrix(a) \/ cc
                /\ r = GA_NO_ERROR \/ cc
                /\ env' = [env EXCEPT !.copy[i] = r]
                /\ err' = r
                /\ IF r # GA_NO_ERROR
                   THEN pc' = "cleanup" /\ UNCHANGED <<ptr, copy, heap>>
                   ELSE /\ copy' = [copy EXCEPT ![i] = CopyOf(i, A, cc)]
                        /\ ptr' = [ptr EXCEPT ![i] = "copy"]
                        /\ heap' = [j \in ArrayIx |->
                                      IF j = i
                                      THEN [heap[j] EXCEPT !.allocs = @ + 1]
                                      ELSE IF heap[j].allocs > heap[j].clears
                                      THEN [heap[j] EXCEPT !.clears = @ + 1]
                                      ELSE heap[j]]
                        /\ pc' = AfterFallback(i)
    /\ UNCHANGED <<op, arg, transA, transB, sz, o, backend, py, rendered>>

\* lines 611-645, the block of the i-th array argument
Fallback(i) ==
    /\ pc = FallbackPc[i]
    /\ i <= Len(array_args(op))
    /\ LET a == array_args(op)[i]
           A == arg.arr[i]
       IN  IF ~NeedsFallback(a, A)
           THEN /\ pc' = AfterFallback(i)
                /\ UNCHANGED <<err, ptr, copy, heap, env>>
           ELSE IF a.output
           THEN /\ err' = GA_VALUE_ERROR
                /\ pc' = "cleanup"
                /\ UNCHANGED <<ptr, copy, heap, env>>
           ELSE IF arg.nocopy
           THEN /\ Return(GA_COPY_ERROR)
                /\ UNCHANGED <<ptr, copy, heap, env>>
           ELSE \E r \in {GA_NO_ERROR, GA_MEMORY_ERROR}, cc \in BOOLEAN :
                /\ ismatrix(a) \/ cc
                /\ r = GA_NO_ERROR \/ cc
                /\ env' = [env EXCEPT !.copy[i] = r]
                /\ err' = r
                /\ IF r # GA_NO_ERROR
                   THEN pc' = "cleanup" /\ UNCHANGED <<ptr, copy, heap>>
                   ELSE /\ copy' = [copy EXCEPT ![i] = CopyOf(i, A, cc)]
                        /\ ptr' = [ptr EXCEPT ![i] = "copy"]
                        /\ heap' = [heap EXCEPT ![i].allocs = @ + 1]
                        /\ pc' = AfterFallback(i)
    /\ UNCHANGED <<op, arg, transA, transB, sz, o, backend, py, rendered>>

\* line 647: the operation's setup_order snippet, on the arrays <name>p
setup_order ==
    CASE op = "gemv" ->
           LET r == setup_order_gemv(NamedP("A"))
           IN  [err |-> r.err, o |-> r.o, lda |-> r.lda, ldb |-> sz.ldb,
                ldc |-> sz.ldc, transA |-> transA, transB |-> transB]
      [] op = "ger" ->
           LET r == setup_order_ger(NamedP("A"))
           IN  [err |-> r.err, o |-> r.o, lda |-> r.lda, ldb |-> sz.ldb,
                ldc |-> sz.ldc, transA |-> transA, transB |-> transB]
      [] op = "gemm" ->
           setup_order_gemm(NamedP("A"), NamedP("B"), NamedP("C"), transA, transB)

SetupOrder ==
    /\ pc = "order"
    /\ LET r == setup_order
       IN  /\ o' = r.o
           /\ sz' = [sz EXCEPT !.lda = r.lda, !.ldb = r.ldb, !.ldc = r.ldc]
           /\ transA' = r.transA
           /\ transB' = r.transB
           /\ IF r.err # GA_NO_ERROR
              THEN err' = r.err /\ pc' = "cleanup"
              ELSE pc' = "ctx" /\ UNCHANGED err
    /\ UNCHANGED <<op, arg, ptr, copy, heap, env, backend, py, rendered>>

\* lines 649-651
PropertyCtx ==
    /\ pc = "ctx"
    /\ \E r \in {GA_NO_ERROR, GA_DEVSUP_ERROR} :
         /\ env' = [env EXCEPT !.ctx = r]
         /\ err' = r
         /\ pc' = IF r # GA_NO_ERROR THEN "cleanup" ELSE "ops"
    /\ UNCHANGED <<op, arg, transA, transB, ptr, copy, heap, sz, o, backend,
                   py, rendered>>

\* lines 652-654
PropertyBlasOps ==
    /\ pc = "ops"
    /\ \E r \in {GA_NO_ERROR, GA_DEVSUP_ERROR} :
         /\ env' = [env EXCEPT !.ops = r]
         /\ err' = r
         /\ pc' = IF r # GA_NO_ERROR THEN "cleanup" ELSE "setup"
    /\ UNCHANGED <<op, arg, transA, transB, ptr, copy, heap, sz, o, backend,
                   py, rendered>>

\* the setup whose answer is not tested
BlasSetupUnchecked ==
    /\ pc = "setup"
    /\ \E r \in {GA_NO_ERROR, GA_BLAS_ERROR} :
         /\ env' = [env EXCEPT !.setup = r]
         /\ err' = r
         /\ pc' = "call"
    /\ UNCHANGED <<op, arg, transA, transB, ptr, copy, heap, sz, o, backend,
                   py, rendered>>

\* lines 656-658
BlasSetup ==
    /\ pc = "setup"
    /\ \E r \in {GA_NO_ERROR, GA_BLAS_ERROR} :
         /\ env' = [env EXCEPT !.setup = r]
         /\ err' = r
         /\ pc' = IF r # GA_NO_ERROR THEN "cleanup" ELSE "call"
    /\ UNCHANGED <<op, arg, transA, transB, ptr, copy, heap, sz, o, backend,
                   py, rendered>>

\* lines 660-663: the entry of the element type, the order o, then
\* format_blas_args: the flags, the sizes by their lower-case locals, the
\* data of each <name>p
Invoke ==
    /\ pc = "call"
    /\ \E r \in {GA_NO_ERROR, GA_BLAS_ERROR} :
         /\ env' = [env EXCEPT !.call = r]
         /\ err' = r
    /\ backend' = Append(backend,
                  [c |-> IF P(1).typecode = GA_FLOAT THEN "s" ELSE "d",
                   name |-> op, order |-> o, transA |-> transA,
                   transB |-> transB, M |-> sz.m, N |-> sz.n, K |-> sz.k,
                   lda |-> sz.lda, ldb |-> sz.ldb, ldc |-> sz.ldc,
                   data |-> [i \in 1..Len(array_args(op)) |-> P(i).buf]])
    /\ pc' = "cleanup"
    /\ UNCHANGED <<op, arg, transA, transB, ptr, copy, heap, sz, o, py, rendered>>

\* a cleanup that releases the copy of the first array argument only
CleanupFirstCopyOnly ==
    /\ pc = "cleanup"
    /\ heap' = [i \in ArrayIx |->
                  IF i = 1 /\ ~array_args(op)[i].output /\ ptr[i] = "copy"
                  THEN [heap[i] EXCEPT !.clears = @ + 1]
                  ELSE heap[i]]
    /\ pc' = "done"
    /\ UNCHANGED <<op, arg, transA, transB, ptr, copy, sz, o, err, env, backend,
                   py, rendered>>

\* lines 665-672
Cleanup ==
    /\ pc = "cleanup"
    /\ heap' = [i \in ArrayIx |->
                  IF /\ i <= Len(array_args(op))
                     /\ ~array_args(op)[i].output
                     /\ ptr[i] = "copy"
                  THEN [heap[i] EXCEPT !.clears = @ + 1]
                  ELSE heap[i]]
    /\ pc' = "done"
    /\ UNCHANGED <<op, arg, transA, transB, ptr, copy, sz, o, err, env, backend,
                   py, rendered>>

\* the frame of GpuArray_r<op> on entry: lines 570-581
NoSizes == [m |-> Undef, n |-> Undef, k |-> Undef,
            lda |-> Undef, ldb |-> Undef, ldc |-> Undef]

NoEnv == [copy |-> [i \in ArrayIx |-> Undef], ctx |-> Undef, ops |-> Undef,
          setup |-> Undef, call |-> Undef]

Enter(x, a) ==
    /\ op = x
    /\ arg = a
    /\ pc = "start"
    /\ transA = a.transA
    /\ transB = a.transB
    /\ ptr = [i \in ArrayIx |-> "orig"]
    /\ copy = [i \in ArrayIx |-> Undef]
    /\ heap = [i \in ArrayIx |-> [allocs |-> 0, clears |-> 0]]
    /\ sz = NoSizes
    /\ o = Undef
    /\ err = Undef
    /\ env = NoEnv
    /\ backend = <<>>

-----------------------------------------------------------------------------
(* The calls explored.  Every call draws its arrays from one of three       *)
(* families, so that each check of the pipeline meets arguments that fail   *)
(* it, pass it, and fail a later one:                                       *)
(*   ArgCalls     any element type, rank and alignment per array, each      *)
(*                array contiguous or not, all dimensions 1                 *)
(*   ShapeCalls   any dimensions, each array contiguous or not              *)
(*   LayoutCalls  dimensions that agree, any layout per array, single or    *)
(*                double precision                                          *)

Buf(i) == <<"arg", i>>

Rank(x, i) == IF ismatrix(array_args(x)[i]) THEN 2 ELSE 1

Contiguous == {GA_F_CONTIGUOUS, GA_C_CONTIGUOUS}

\* the layouts of a matrix: column-major, row-major, both, one segment
\* that is neither, several segments
MatrixLayouts ==
    { [flags |-> {GA_F_CONTIGUOUS}, onesegment |-> TRUE, neg |-> FALSE],
      [flags |-> {GA_C_CONTIGUOUS}, onesegment |-> TRUE, neg |-> FALSE],
      [flags |-> Contiguous, onesegment |-> TRUE, neg |-> FALSE],
      [flags |-> {}, onesegment |-> TRUE, neg |-> FALSE],
      [flags |-> {}, onesegment |-> FALSE, neg |-> FALSE] }

\* the layouts of a vector: positive or negative stride
VectorLayouts ==
    { [flags |-> Contiguous, onesegment |-> TRUE, neg |-> FALSE],
      [flags |-> {}, onesegment |-> TRUE, neg |-> TRUE] }

Layouts(x, i) == IF Rank(x, i) = 2 THEN MatrixLayouts ELSE VectorLayouts

TwoLayouts(x, i) ==
    IF Rank(x, i) = 2
    THEN { [flags |-> {GA_F_CONTIGUOUS}, onesegment |-> TRUE, neg |-> FALSE],
           [flags |-> {}, onesegment |-> FALSE, neg |-> FALSE] }
    ELSE VectorLayouts

TransOf(x, nm) ==
    IF \E i \in 1..Len(OPS[x].arguments) :
         OPS[x].arguments[i] = trans(<<"t","r","a","n","s",nm>>)
    THEN cb_transpose ELSE {Undef}

ArgArrays(x, i) ==
    { GpuArray(Buf(i), tc, nd, [j \in 1..nd |-> 1],
               l.flags \cup (IF al THEN {GA_ALIGNED} ELSE {}), l.onesegment, l.neg) :
        tc \in TypeCodes, nd \in {1, 2}, al \in BOOLEAN, l \in TwoLayouts(x, i) }

ArgCalls(x) ==
    \E a1 \in ArgArrays(x, 1), a2 \in ArgArrays(x, 2), a3 \in ArgArrays(x, 3),
       tA \in TransOf(x, "A") \cap {cb_no_trans, Undef},
       tB \in TransOf(x, "B") \cap {cb_no_trans, Undef},
       nc \in BOOLEAN :
         Enter(x, [arr |-> <<a1, a2, a3>>, transA |-> tA, transB |-> tB,
                   nocopy |-> nc])

ShapeArrays(x, i) ==
    { GpuArray(Buf(i), GA_FLOAT, Rank(x, i), d, l.flags \cup {GA_ALIGNED},
               l.onesegment, l.neg) :
        d \in [1..Rank(x, i) -> 1..MaxDim], l \in TwoLayouts(x, i) }

ShapeCalls(x) ==
    \E a1 \in ShapeArrays(x, 1), a2 \in ShapeArrays(x, 2),
       a3 \in ShapeArrays(x, 3),
       tA \in TransOf(x, "A"), tB \in TransOf(x, "B"), nc \in BOOLEAN :
         Enter(x, [arr |-> <<a1, a2, a3>>, transA |-> tA, transB |-> tB,
                   nocopy |-> nc])

\* dimensions of the array named nm that agree for sizes m, n, k
Agreeing(x, nm, tA, tB, m, n, k) ==
    CASE x = "gemv" /\ nm = "A" -> IF tA = cb_no_trans THEN <<m, n>> ELSE <<n, m>>
      [] x = "gemv" /\ nm = "X" -> <<n>>
      [] x = "gemv" /\ nm = "Y" -> <<m>>
      [] x = "gemm" /\ nm = "A" -> IF tA = cb_no_trans THEN <<m, k>> ELSE <<k, m>>
      [] x = "gemm" /\ nm = "B" -> IF tB = cb_no_trans THEN <<k, n>> ELSE <<n, k>>
      [] x = "gemm" /\ nm = "C" -> <<m, n>>
      [] x = "ger" /\ nm = "X" -> <<m>>
      [] x = "ger" /\ nm = "Y" -> <<n>>
      [] x = "ger" /\ nm = "A" -> <<m, n>>

LayoutArray(x, i, tc, tA, tB, d, l) ==
    GpuArray(Buf(i), tc, Rank(x, i),
             Agreeing(x, array_args(x)[i].name[1], tA, tB, d[1], d[2], d[3]),
             l.flags \cup {GA_ALIGNED}, l.onesegment, l.neg)

LayoutCalls(x) ==
    \E d \in [1..3 -> 1..MaxDim], tc \in {GA_FLOAT, GA_DOUBLE},
       l1 \in Layouts(x, 1), l2 \in Layouts(x, 2), l3 \in Layouts(x, 3),
       tA \in TransOf(x, "A"), tB \in TransOf(x, "B"), nc \in BOOLEAN :
         Enter(x, [arr |-> << LayoutArray(x, 1, tc, tA, tB, d, l1),
                              LayoutArray(x, 2, tc, tA, tB, d, l2),
                              LayoutArray(x, 3, tc, tA, tB, d, l3) >>,
                   transA |-> tA, transB |-> tB, nocopy |-> nc])

NoPy == [pc |-> "none"]

NoRender == <<>>

Init ==
    /\ \E x \in OpNames : ArgCalls(x) \/ ShapeCalls(x) \/ LayoutCalls(x)
    /\ py = NoPy
    /\ rendered = NoRender

Next ==
    \/ CheckTypecode
    \/ CheckRankAndType
    \/ CheckAligned
    \/ CheckDims
    \/ \E i \in ArrayIx : Fallback(i)
    \/ SetupOrder
    \/ PropertyCtx
    \/ PropertyBlasOps
    \/ BlasSetup
    \/ Invoke
    \/ Cleanup

Spec == Init /\ [][Next]_vars

-----------------------------------------------------------------------------
(* The high-level binding def <op>, BLAS_PYX_TMPL lines 707-744.  An array  *)
(* variable holds <<>> for None and <<a>> for the array a.                  *)

\* the position among array_args(x) of the output array
OutIx(x) == CHOOSE i \in 1..Len(array_args(x)) : array_args(x)[i].output

\* what pygpu_empty / pygpu_zeros return: a fresh aligned contiguous array
\* of the shape and type asked for, in the order fl the runtime picks
pygpu_empty(i, shape, typecode, fl) ==
    GpuArray(<<"fresh", i>>, typecode, Len(shape), shape,
             (IF Len(shape) = 2 THEN fl ELSE Contiguous) \cup {GA_ALIGNED},
             TRUE, FALSE)

\* what pygpu_copy(Y, GA_ANY_ORDER) returns: a fresh aligned contiguous array
\* with the shape and type of Y
pygpu_copy(i, Y, fl) ==
    GpuArray(<<"pycopy", i>>, Y.typecode, Y.nd, Y.dimensions,
             (IF Y.nd = 2 THEN fl ELSE Contiguous) \cup {GA_ALIGNED},
             TRUE, FALSE)

Raise(f, e) == [f EXCEPT !.pc = "raised", !.exc = e]

\* lines 716-723: the transpose booleans become flags
PyTrans ==
    /\ py.pc = "trans"
    /\ py' = [py EXCEPT
                !.pc = "ensure",
                !.transA = IF op \in {"gemv", "gemm"}
                           THEN (IF py.given.trans_a THEN cb_trans ELSE cb_no_trans)
                           ELSE Undef,
                !.transB = IF op = "gemm"
                           THEN (IF py.given.trans_b THEN cb_trans ELSE cb_no_trans)
                           ELSE Undef]
    /\ UNCHANGED <<op, arg, pc, transA, transB, ptr, copy, heap, sz, o, err, env,
                   backend, rendered>>

\* lines 234-246; ok and fl are the outcome of pygpu_empty
py_ensure_output_gemv(f, ok, fl) ==
    LET A == f.arr[Ix("gemv", "A")][1]
        iy == Ix("gemv", "Y")
        Yshp == IF f.transA = cb_no_trans THEN A.dimensions[1] ELSE A.dimensions[2]
    IN  IF A.nd # 2 THEN Raise(f, "TypeError")
        ELSE IF f.arr[iy] # <<>> THEN f
        ELSE IF f.given.beta # 0 THEN Raise(f, "ValueError")
        ELSE IF ~ok THEN Raise(f, "GpuArrayException")
        ELSE [f EXCEPT !.arr[iy] = <<pygpu_empty(iy, <<Yshp>>, A.typecode, fl)>>,
                       !.made = @ \cup {<<"fresh", iy>>},
                       !.overwrite = TRUE]

\* py_ensure_output_gemm without the last line, overwrite_c = True
py_ensure_output_gemm_keeps_overwrite(f, ok, fl) ==
    LET A == f.arr[Ix("gemm", "A")][1]
        B == f.arr[Ix("gemm", "B")][1]
        ic == Ix("gemm", "C")
    IN  IF A.nd # 2 THEN Raise(f, "TypeError")
        ELSE IF B.nd # 2 THEN Raise(f, "TypeError")
        ELSE LET Cshp == << IF f.transA = cb_no_trans
                            THEN A.dimensions[1] ELSE A.dimensions[2],
                            IF f.transB = cb_no_trans
                            THEN B.dimensions[2] ELSE B.dimensions[1] >>
             IN  IF f.arr[ic] # <<>> THEN f
                 ELSE IF f.given.beta # 0 THEN Raise(f, "ValueError")
                 ELSE IF ~ok THEN Raise(f, "GpuArrayException")
                 ELSE [f EXCEPT
                         !.arr[ic] = <<pygpu_empty(ic, Cshp, A.typecode, fl)>>,
                         !.made = @ \cup {<<"fresh", ic>>}]

\* lines 326-344
py_ensure_output_gemm(f, ok, fl) ==
    LET A == f.arr[Ix("gemm", "A")][1]
        B == f.arr[Ix("gemm", "B")][1]
        ic == Ix("gemm", "C")
    IN  IF A.nd # 2 THEN Raise(f, "TypeError")
        ELSE IF B.nd # 2 THEN Raise(f, "TypeError")
        ELSE LET Cshp == << IF f.transA = cb_no_trans
                            THEN A.dimensions[1] ELSE A.dimensions[2],
                            IF f.transB = cb_no_trans
                            THEN B.dimensions[2] ELSE B.dimensions[1] >>
             IN  IF f.arr[ic] # <<>> THEN f
                 ELSE IF f.given.beta # 0 THEN Raise(f, "ValueError")
                 ELSE IF ~ok THEN Raise(f, "GpuArrayException")
                 ELSE [f EXCEPT
                         !.arr[ic] = <<pygpu_empty(ic, Cshp, A.typecode, fl)>>,
                         !.made = @ \cup {<<"fresh", ic>>},
                         !.overwrite = TRUE]

\* lines 369-375
py_ensure_output_ger(f, ok, fl) ==
    LET X == f.arr[Ix("ger", "X")][1]
        Y == f.arr[Ix("ger", "Y")][1]
        ia == Ix("ger", "A")
    IN  IF f.arr[ia] # <<>> THEN f
        ELSE IF ~ok THEN Raise(f, "GpuArrayException")
        ELSE [f EXCEPT
                !.arr[ia] = <<pygpu_empty(ia, <<X.dimensions[1], Y.dimensions[1]>>,
                                          X.typecode, fl)>>,
                !.made = @ \cup {<<"fresh", ia>>},
                !.overwrite = TRUE]

py_ensure_output(f, ok, fl) ==
    CASE op = "gemv" -> py_ensure_output_gemv(f, ok, fl)
      [] op = "gemm" -> py_ensure_output_gemm(f, ok, fl)
      [] op = "ger"  -> py_ensure_output_ger(f, ok, fl)

\* line 725
PyEnsureOutput ==
    /\ py.pc = "ensure"
    /\ \E ok \in BOOLEAN, fl \in {{GA_F_CONTIGUOUS}, {GA_C_CONTIGUOUS}} :
         LET f == py_ensure_output(py, ok, fl)
         IN  py' = IF f.pc = "raised" THEN f ELSE [f EXCEPT !.pc = "copyout"]
    /\ UNCHANGED <<op, arg, pc, transA, transB, ptr, copy, heap, sz, o, err, env,
                   backend, rendered>>

\* the output passed on as it is, whatever overwrite says
copy_output_never(f, ok, fl) == f

\* lines 727-732; ok and fl are the outcome of pygpu_copy
copy_output(f, ok, fl) ==
    LET i == OutIx(op)
    IN  IF f.overwrite THEN f
        ELSE IF ~ok THEN Raise(f, "GpuArrayException")
        ELSE [f EXCEPT !.arr[i] = <<pygpu_copy(i, f.arr[i][1], fl)>>,
                       !.made = @ \cup {<<"pycopy", i>>}]

PyCopyOutput ==
    /\ py.pc = "copyout"
    /\ \E ok \in BOOLEAN, fl \in {{GA_F_CONTIGUOUS}, {GA_C_CONTIGUOUS}} :
         LET f == copy_output(py, ok, fl)
         IN  py' = IF f.pc = "raised" THEN f ELSE [f EXCEPT !.pc = "call"]
    /\ UNCHANGED <<op, arg, pc, transA, transB, ptr, copy, heap, sz, o, err, env,
                   backend, rendered>>

\* line 733 and lines 697-700: pygpu_blas_r<op> enters GpuArray_r<op> with the
\* arrays, the flags and nocopy = 0
simple_call(f) ==
    [arr |-> [i \in ArrayIx |-> f.arr[i][1]], transA |-> f.transA,
     transB |-> f.transB, nocopy |-> FALSE]

PyCall ==
    /\ py.pc = "call"
    /\ pc = "idle"
    /\ py' = [py EXCEPT !.pc = "wait"]
    /\ arg' = simple_call(py)
    /\ pc' = "start"
    /\ transA' = py.transA
    /\ transB' = py.transB
    /\ UNCHANGED <<op, ptr, copy, heap, sz, o, err, env, backend, rendered>>

\* lines 701-703 and 742: the error raised, or the output returned
PyReturn ==
    /\ py.pc = "wait"
    /\ pc = "done"
    /\ py' = IF err # GA_NO_ERROR
             THEN Raise(py, "GpuArrayException")
             ELSE [py EXCEPT !.pc = "returned", !.ret = py.arr[OutIx(op)]]
    /\ UNCHANGED <<op, arg, pc, transA, transB, ptr, copy, heap, sz, o, err, env,
                   backend, rendered>>

\* the calls of def <op> explored: input arrays of any shape, an input
\* matrix possibly of rank 1 or in several segments, the output absent or
\* a row-major array of any shape
PyInput(x, i) ==
    IF Rank(x, i) = 2
    THEN { GpuArray(Buf(i), GA_FLOAT, 2, d, l.flags \cup {GA_ALIGNED},
                    l.onesegment, l.neg) :
             d \in [1..2 -> 1..MaxDim], l \in TwoLayouts(x, i) }
         \cup { GpuArray(Buf(i), GA_FLOAT, 1, <<1>>, Contiguous \cup {GA_ALIGNED},
                         TRUE, FALSE) }
    ELSE { GpuArray(Buf(i), GA_FLOAT, 1, d, Contiguous \cup {GA_ALIGNED},
                    TRUE, FALSE) : d \in [1..1 -> 1..MaxDim] }

PyOutput(x, i) ==
    { <<>> } \cup
    { << GpuArray(Buf(i), GA_FLOAT, Rank(x, i), d,
                  (IF Rank(x, i) = 2 THEN {GA_C_CONTIGUOUS} ELSE Contiguous)
                     \cup {GA_ALIGNED}, TRUE, FALSE) >> :
        d \in [1..Rank(x, i) -> 1..MaxDim] }

PyArrays(x, i) ==
    IF array_args(x)[i].output THEN PyOutput(x, i)
    ELSE { <<a>> : a \in PyInput(x, i) }

\* beta, where the operation has it, is 0 or not
Betas(x) == IF x = "ger" THEN {0} ELSE {0, 1}

\* the frame of def <op> on entry, called with the values g
PyEnter(x, g) ==
    /\ op = x
    /\ py = [pc |-> "trans", given |-> g, arr |-> g.arr,
             overwrite |-> g.overwrite, transA |-> Undef,
             transB |-> Undef, exc |-> "none", ret |-> <<>>,
             made |-> {}]

PyCalls(x) ==
    \E a1 \in PyArrays(x, 1), a2 \in PyArrays(x, 2), a3 \in PyArrays(x, 3),
       b \in Betas(x),
       ta \in IF x = "ger" THEN {FALSE} ELSE BOOLEAN,
       tb \in IF x = "gemm" THEN BOOLEAN ELSE {FALSE},
       ow \in BOOLEAN :
         PyEnter(x, [arr |-> <<a1, a2, a3>>, beta |-> b, trans_a |-> ta,
                     trans_b |-> tb, overwrite |-> ow])

NoCall == [arr |-> <<>>, transA |-> Undef, transB |-> Undef, nocopy |-> FALSE]

InitPy ==
    /\ \E x \in OpNames : PyCalls(x)
    /\ arg = NoCall
    /\ pc = "idle"
    /\ transA = Undef
    /\ transB = Undef
    /\ ptr = [i \in ArrayIx |-> "orig"]
    /\ copy = [i \in ArrayIx |-> Undef]
    /\ heap = [i \in ArrayIx |-> [allocs |-> 0, clears |-> 0]]
    /\ sz = NoSizes
    /\ o = Undef
    /\ err = Undef
    /\ env = NoEnv
    /\ backend = <<>>
    /\ rendered = NoRender

NextPy ==
    \/ PyTrans
    \/ PyEnsureOutput
    \/ PyCopyOutput
    \/ PyCall
    \/ PyReturn
    \/ Next

SpecPy == InitPy /\ [][NextPy]_vars


-----------------------------------------------------------------------------
(* The rendered argument lists.  A list is the sequence of the pieces that  *)
(* ', '.join puts between commas; a piece records the text rendered.        *)

UpperCase == <<"A","B","C","D","E","F","G","H","I","J","K","L","M",
               "N","O","P","Q","R","S","T","U","V","W","X","Y","Z">>

LowerCase == <<"a","b","c","d","e","f","g","h","i","j","k","l","m",
               "n","o","p","q","r","s","t","u","v","w","x","y","z">>

\* str.lower()
lower(nm) ==
    [i \in 1..Len(nm) |->
       IF \E u \in 1..Len(UpperCase) : UpperCase[u] = nm[i]
       THEN LowerCase[CHOOSE u \in 1..Len(UpperCase) : UpperCase[u] = nm[i]]
       ELSE nm[i]]

\* the ctype of the scalar classes with a fixed one: lines 81, 88, 95
ctype_of(a, ctype) ==
    CASE a.cls = "size" -> "size_t"
      [] a.cls = "inc" -> "int"
      [] a.cls = "trans" -> "cb_transpose"
      [] OTHER -> ctype

\* tf_macro: lines 58, 80, 87, 94
tf_macro(a) ==
    CASE a.cls = "scalar" -> "SCAL"
      [] a.cls = "size" -> "SZ"
      [] a.cls = "inc" -> ""
      [] a.cls = "trans" -> "TRANS"

\* format_as_arg: lines 43-47, 59-63, 117-118
format_as_arg(a, ctype) ==
    IF isarray(a)
    THEN << [form |-> "param", type |-> "gpudata *", name |-> a.name],
            [form |-> "param", type |-> "size_t", name |-> <<"o","f","f">> \o a.name] >>
    ELSE << [form |-> "param", type |-> ctype_of(a, ctype), name |-> a.name] >>

\* format_as_call: lines 54-55, 120-121
format_as_call(a) ==
    IF isarray(a)
    THEN << [form |-> "macro", macro |-> "ARRAY", name |-> a.name] >>
    ELSE << [form |-> "macro", macro |-> tf_macro(a), name |-> a.name] >>

\* format_as_callarg with the offset of an array ahead of its buffer
format_as_callarg_offset_first(a, ctype) ==
    CASE a.cls = "scalar" ->
           << [form |-> "cast", type |-> ctype, name |-> a.name] >>
      [] a.cls = "size" ->
           << [form |-> "var", name |-> lower(a.name)] >>
      [] a.cls = "inc" ->
           << [form |-> "field", name |-> <<a.name[Len(a.name)], "p">>,
               field |-> "strides[0] / elsize"] >>
      [] a.cls = "trans" ->
           << [form |-> "var", name |-> a.name] >>
      [] isarray(a) ->
           << [form |-> "field", name |-> a.name \o <<"p">>,
               field |-> "offset / elsize"],
              [form |-> "field", name |-> a.name \o <<"p">>, field |-> "data"] >>

\* format_as_callarg: lines 70-71, 83-84, 90-91, 97-98, 123-124
format_as_callarg(a, ctype) ==
    CASE a.cls = "scalar" ->
           << [form |-> "cast", type |-> ctype, name |-> a.name] >>
      [] a.cls = "size" ->
           << [form |-> "var", name |-> lower(a.name)] >>
      [] a.cls = "inc" ->
           << [form |-> "field", name |-> <<a.name[Len(a.name)], "p">>,
               field |-> "strides[0] / elsize"] >>
      [] a.cls = "trans" ->
           << [form |-> "var", name |-> a.name] >>
      [] isarray(a) ->
           << [form |-> "field", name |-> a.name \o <<"p">>, field |-> "data"],
              [form |-> "field", name |-> a.name \o <<"p">>,
               field |-> "offset / elsize"] >>

\* the text before the joined arguments: 'cb_order order, ' (lines 170-172),
\* 'ORDER ' (lines 178-180), and the 'o, ' of the template (lines 661, 663)
list_head(surface, x) ==
    CASE surface = "format_arguments" ->
           IF has_order(x)
           THEN << [form |-> "param", type |-> "cb_order",
                    name |-> <<"o","r","d","e","r">>] >>
           ELSE <<>>
      [] surface = "format_call_args" ->
           IF has_order(x)
           THEN << [form |-> "macro", macro |-> "ORDER", name |-> <<>>] >>
           ELSE <<>>
      [] surface = "format_blas_args" ->
           << [form |-> "var", name |-> <<"o">>] >>

\* one argument as the surface renders it
list_piece(surface, a, ctype) ==
    CASE surface = "format_arguments" -> format_as_arg(a, ctype)
      [] surface = "format_call_args" -> format_as_call(a)
      [] surface = "format_blas_args" -> format_as_callarg(a, ctype)

\* the operations in the order of make_ops
OpOrder == <<"gemv", "gemm", "ger">>

\* the lists rendered, in the order of lines 750-753: GENERIC_TMPL renders
\* per operation the declaration with the macro parameter dtype and the
\* forwarding call; BUFFERBLAS_TMPL the declaration per operation and type;
\* ARRAYBLAS_TMPL per operation the float and the double call
Plan ==
    LET generic(x) ==
          << [tmpl |-> "GENERIC_TMPL", surface |-> "format_arguments",
              op |-> x, ctype |-> "dtype"],
             [tmpl |-> "GENERIC_TMPL", surface |-> "format_call_args",
              op |-> x, ctype |-> "dtype"] >>
        buffer(x) ==
          [t \in 1..Len(OPS[x].types) |->
             [tmpl |-> "BUFFERBLAS_TMPL", surface |-> "format_arguments",
              op |-> x, ctype |-> OPS[x].types[t].name]]
        array(x) ==
          << [tmpl |-> "ARRAYBLAS_TMPL", surface |-> "format_blas_args",
              op |-> x, ctype |-> "float"],
             [tmpl |-> "ARRAYBLAS_TMPL", surface |-> "format_blas_args",
              op |-> x, ctype |-> "double"] >>
    IN  generic(OpOrder[1]) \o generic(OpOrder[2]) \o generic(OpOrder[3])
        \o buffer(OpOrder[1]) \o buffer(OpOrder[2]) \o buffer(OpOrder[3])
        \o array(OpOrder[1]) \o array(OpOrder[2]) \o array(OpOrder[3])

\* the list being rendered
Current == Plan[rendered.k]

\* a list is begun: the text before the join
BeginList ==
    /\ rendered.k <= Len(Plan)
    /\ rendered.j = 0
    /\ rendered' = [rendered EXCEPT
                      !.j = 1,
                      !.cur = list_head(Current.surface, Current.op)]
    /\ UNCHANGED <<op, arg, pc, transA, transB, ptr, copy, heap, sz, o, err, env,
                   backend, py>>

\* the join takes the next argument of self.arguments
RenderArgument ==
    /\ rendered.k <= Len(Plan)
    /\ rendered.j >= 1
    /\ rendered.j <= Len(OPS[Current.op].arguments)
    /\ rendered' = [rendered EXCEPT
                      !.j = @ + 1,
                      !.cur = @ \o list_piece(Current.surface,
                                              OPS[Current.op].arguments[rendered.j],
                                              Current.ctype)]
    /\ UNCHANGED <<op, arg, pc, transA, transB, ptr, copy, heap, sz, o, err, env,
                   backend, py>>

\* the list is complete and the template goes on to the next
EndList ==
    /\ rendered.k <= Len(Plan)
    /\ rendered.j = Len(OPS[Current.op].arguments) + 1
    /\ rendered' = [k |-> rendered.k + 1, j |-> 0, cur |-> <<>>,
                    out |-> Append(rendered.out,
                                   [tmpl |-> Current.tmpl,
                                    surface |-> Current.surface,
                                    op |-> Current.op, ctype |-> Current.ctype,
                                    pieces |-> rendered.cur])]
    /\ op' = IF rendered.k < Len(Plan) THEN Plan[rendered.k + 1].op ELSE op
    /\ UNCHANGED <<arg, pc, transA, transB, ptr, copy, heap, sz, o, err, env,
                   backend, py>>

InitGen ==
    /\ rendered = [k |-> 1, j |-> 0, cur |-> <<>>, out |-> <<>>]
    /\ op = Plan[1].op
    /\ arg = NoCall
    /\ pc = "idle"
    /\ transA = Undef
    /\ transB = Undef
    /\ ptr = [i \in ArrayIx |-> "orig"]
    /\ copy = [i \in ArrayIx |-> Undef]
    /\ heap = [i \in ArrayIx |-> [allocs |-> 0, clears |-> 0]]
    /\ sz = NoSizes
    /\ o = Undef
    /\ err = Undef
    /\ env = NoEnv
    /\ backend = <<>>
    /\ py = NoPy

NextGen == BeginList \/ RenderArgument \/ EndList

SpecGen == InitGen /\ [][NextGen]_vars

-----------------------------------------------------------------------------
(* Vocabulary of the properties, stated on the arguments of the call *)

N == Len(array_args(op))

Inputs == {i \in 1..N : ~array_args(op)[i].output}

Outputs == {i \in 1..N : array_args(op)[i].output}

Entered == pc # "idle"

Done == pc = "done"

Invoked == Len(backend) > 0

\* a matrix in several segments, a vector of negative stride
Defect(i) ==
    IF array_args(op)[i].cls = "matrix"
    THEN ~arg.arr[i].onesegment
    ELSE arg.arr[i].neg

Live(i) == heap[i].allocs - heap[i].clears

FirstSupported == arg.arr[1].typecode \in {GA_FLOAT, GA_DOUBLE}

TypesAgree == \A i \in 1..N : arg.arr[i].typecode = arg.arr[1].typecode

RanksRight ==
    \A i \in 1..N :
       arg.arr[i].nd = (IF array_args(op)[i].cls = "matrix" THEN 2 ELSE 1)

AllAligned == \A i \in 1..N : GA_ALIGNED \in arg.arr[i].flags

ArgumentsValid == FirstSupported /\ TypesAgree /\ RanksRight /\ AllAligned

\* rows and columns of a matrix after applying a transpose flag
RowsAfter(A, t) == IF t = cb_no_trans THEN A.dimensions[1] ELSE A.dimensions[2]

ColsAfter(A, t) == IF t = cb_no_trans THEN A.dimensions[2] ELSE A.dimensions[1]

\* the size relations of the operation, on the arrays and flags as passed
SizesAgree ==
    CASE op = "gemv" ->
           /\ Named("Y").dimensions[1] = RowsAfter(Named("A"), arg.transA)
           /\ Named("X").dimensions[1] = ColsAfter(Named("A"), arg.transA)
      [] op = "gemm" ->
           /\ ColsAfter(Named("A"), arg.transA) = RowsAfter(Named("B"), arg.transB)
           /\ Named("C").dimensions =
                << RowsAfter(Named("A"), arg.transA),
                   ColsAfter(Named("B"), arg.transB) >>
      [] op = "ger" ->
           Named("A").dimensions =
             << Named("X").dimensions[1], Named("Y").dimensions[1] >>

\* the storage order of a contiguous matrix: column-major when it is flagged
\* so, row-major otherwise
NativeOrder(M) == IF GA_F_CONTIGUOUS \in M.flags THEN cb_fortran ELSE cb_c

\* the logical inverse of a transpose flag
Inverse(t) == IF t \in {cb_trans, cb_conj_trans} THEN cb_no_trans ELSE cb_trans

-----------------------------------------------------------------------------
(* C1: on every exit path of GpuArray_r<op>, each fallback copy created     *)
(* during the call has been released exactly once: no copy is released      *)
(* that was not created, none twice, and none is live after the return.     *)
C1_CopiesReleased ==
    Entered =>
      /\ \A i \in ArrayIx : heap[i].clears <= heap[i].allocs /\ heap[i].allocs <= 1
      /\ Done => \A i \in ArrayIx : Live(i) = 0

\* a call that made a copy and then failed
C1_Witness ==
    /\ Done
    /\ err # GA_NO_ERROR
    /\ \E i \in ArrayIx : heap[i].allocs = 1 /\ heap[i].clears = 1

(* C2: in gemm the backend receives the native order of C, and for A and B  *)
(* the caller's flag inverted exactly when the matrix's native order (after *)
(* the fallback copy) differs from that order, unchanged otherwise.         *)
C2_TransposeCorrection ==
    (op = "gemm" /\ Invoked) =>
      LET b == backend[1]
      IN  /\ b.order = NativeOrder(NamedP("C"))
          /\ b.transA = IF NativeOrder(NamedP("A")) # b.order
                        THEN Inverse(arg.transA) ELSE arg.transA
          /\ b.transB = IF NativeOrder(NamedP("B")) # b.order
                        THEN Inverse(arg.transB) ELSE arg.transB

\* A disagrees with C and has its flag inverted, B agrees and keeps its flag
C2_Witness ==
    /\ op = "gemm" /\ Invoked
    /\ NativeOrder(NamedP("A")) # backend[1].order
    /\ NativeOrder(NamedP("B")) = backend[1].order
    /\ arg.transA = cb_trans /\ backend[1].transA = cb_no_trans
    /\ arg.transB = cb_no_trans /\ backend[1].transB = cb_no_trans

\* C is stored row-major only, the input matrix named nm column-major only
RowMajorOutputColumnMajorInput(nm) ==
    /\ op = "gemm" /\ Invoked
    /\ NamedP("C").flags \cap Contiguous = {GA_C_CONTIGUOUS}
    /\ NamedP(nm).flags \cap Contiguous = {GA_F_CONTIGUOUS}

(* C3 as stated: with the order fixed row-major by C, a column-major input  *)
(* matrix has its leading dimension taken from its second dimension.        *)
C3_Original ==
    /\ RowMajorOutputColumnMajorInput("A") =>
         backend[1].order = cb_c /\ backend[1].lda = NamedP("A").dimensions[2]
    /\ RowMajorOutputColumnMajorInput("B") =>
         backend[1].order = cb_c /\ backend[1].ldb = NamedP("B").dimensions[2]

(* C3, amended: with the order fixed row-major by C, a column-major input   *)
(* matrix has its leading dimension taken from its first dimension, and     *)
(* the backend receives the row-major order of C.                           *)
C3_LeadingDimension ==
    /\ RowMajorOutputColumnMajorInput("A") =>
         backend[1].order = cb_c /\ backend[1].lda = NamedP("A").dimensions[1]
    /\ RowMajorOutputColumnMajorInput("B") =>
         backend[1].order = cb_c /\ backend[1].ldb = NamedP("B").dimensions[1]

\* a column-major A that is not square, under a row-major C
C3_Witness ==
    /\ RowMajorOutputColumnMajorInput("A")
    /\ NamedP("A").dimensions[1] # NamedP("A").dimensions[2]
    /\ backend[1].lda = NamedP("A").dimensions[1]

(* C4: the dimension check lets the call go on to the contiguity fallback   *)
(* exactly when the operation's size relations hold; otherwise the call     *)
(* returns the dimension error there, with no copy made and the backend     *)
(* not invoked.                                                             *)
C4_DimensionCheck ==
    [][ pc = "dims" =>
          IF SizesAgree
          THEN pc' = "fallback1" /\ err' = err
          ELSE /\ pc' = "done" /\ err' = GA_VALUE_ERROR
               /\ \A i \in ArrayIx : heap'[i].allocs = 0 /\ env'.copy[i] = Undef
               /\ backend' = <<>> ]_vars

\* a gemm whose inner dimensions disagree under a transposed B
C4_Witness ==
    /\ Done /\ op = "gemm" /\ ArgumentsValid
    /\ arg.transB = cb_trans
    /\ ColsAfter(Named("A"), arg.transA) # RowsAfter(Named("B"), arg.transB)
    /\ err = GA_VALUE_ERROR
    /\ backend = <<>>

-----------------------------------------------------------------------------
(* Vocabulary of the properties of def <op>, stated on the caller's values *)

OutputAbsent == py.given.arr[OutIx(op)] = <<>>

PastEnsure == py.pc \notin {"trans", "ensure"}

Given(nm) == py.given.arr[Ix(op, nm)][1]

FlagOf(b) == IF b THEN cb_trans ELSE cb_no_trans

\* the input matrices def gemv / def gemm measure have rank 2
MatricesGiven ==
    CASE op = "gemv" -> Given("A").nd = 2
      [] op = "gemm" -> Given("A").nd = 2 /\ Given("B").nd = 2
      [] op = "ger"  -> TRUE

\* the shape of the product
InferredShape ==
    CASE op = "gemv" -> << RowsAfter(Given("A"), FlagOf(py.given.trans_a)) >>
      [] op = "gemm" -> << RowsAfter(Given("A"), FlagOf(py.given.trans_a)),
                           ColsAfter(Given("B"), FlagOf(py.given.trans_b)) >>

NothingAllocated ==
    /\ py.made = {}
    /\ \A i \in ArrayIx : heap[i].allocs = 0 /\ env.copy[i] = Undef

PipelineNotEntered == pc = "idle" /\ backend = <<>>

Fresh == <<"fresh", OutIx(op)>>

\* the errors def <op> raises for a misuse, before the pipeline is called
UsageErrors == {"ValueError", "TypeError"}

(* C5 as stated: def gemv / def gemm called without the output fail with a  *)
(* usage error when beta # 0, nothing allocated and the pipeline not        *)
(* entered, and when beta = 0 allocate a fresh output of the inferred       *)
(* shape, which the pipeline receives and the call returns.                 *)
C5_Original ==
    (op \in {"gemv", "gemm"} /\ OutputAbsent /\ PastEnsure) =>
      /\ py.given.beta # 0 =>
           /\ py.pc = "raised" /\ py.exc \in UsageErrors
           /\ NothingAllocated /\ PipelineNotEntered
      /\ py.given.beta = 0 =>
           /\ py.made = {Fresh}
           /\ py.pc # "raised" \/ py.exc \notin UsageErrors

(* C5, amended: def gemv / def gemm called without the output and with      *)
(* input matrices of rank 2: with beta # 0 the call raises ValueError,      *)
(* nothing allocated and the pipeline not entered; with beta = 0 the only   *)
(* buffer the binding allocates is a fresh output of the inferred shape,    *)
(* which is the array the pipeline receives and the array returned.  With   *)
(* an input matrix of another rank the call raises TypeError instead,       *)
(* whatever beta is.                                                        *)
C5_AbsentOutput ==
    (op \in {"gemv", "gemm"} /\ OutputAbsent /\ PastEnsure) =>
      /\ ~MatricesGiven =>
           /\ py.pc = "raised" /\ py.exc = "TypeError"
           /\ NothingAllocated /\ PipelineNotEntered
      /\ (MatricesGiven /\ py.given.beta # 0) =>
           /\ py.pc = "raised" /\ py.exc = "ValueError"
           /\ NothingAllocated /\ PipelineNotEntered
      /\ (MatricesGiven /\ py.given.beta = 0) =>
           /\ py.made \subseteq {Fresh}
           /\ Entered =>
                /\ py.made = {Fresh}
                /\ arg.arr[OutIx(op)].buf = Fresh
                /\ arg.arr[OutIx(op)].dimensions = InferredShape
           /\ py.pc = "returned" =>
                /\ Len(py.ret) = 1
                /\ py.ret[1].buf = Fresh
                /\ py.ret[1].dimensions = InferredShape

\* a gemm with both flags set, no C and beta = 0 that returns its fresh C
C5_Witness ==
    /\ py.pc = "returned"
    /\ op = "gemm" /\ OutputAbsent /\ py.given.beta = 0
    /\ py.given.trans_a /\ py.given.trans_b /\ ~py.given.overwrite
    /\ Given("A").dimensions[1] # Given("A").dimensions[2]
    /\ py.ret[1].buf = Fresh
    /\ Invoked /\ backend[1].data[OutIx(op)] = Fresh

OutputGiven == py.given.arr[OutIx(op)] # <<>>

(* C6: in def <op>, when the caller supplies the output and overwrite is    *)
(* false, GpuArray_r<op> and the backend receive a copy of it and never     *)
(* the caller's buffer; they receive the caller's buffer exactly when       *)
(* overwrite is true.                                                       *)
C6_OutputCopied ==
    (py.pc # "none" /\ OutputGiven /\ Entered) =>
      LET mine == Given(array_args(op)[OutIx(op)].name[1]).buf
          passed == arg.arr[OutIx(op)]
      IN  /\ ~py.given.overwrite =>
               /\ passed.buf = <<"pycopy", OutIx(op)>>
               /\ passed.buf # mine
               /\ passed.dimensions = Given(array_args(op)[OutIx(op)].name[1]).dimensions
               /\ \A j \in 1..Len(backend) : mine \notin
                    {backend[j].data[i] : i \in 1..N}
          /\ py.given.overwrite =>
               /\ passed.buf = mine
               /\ \A j \in 1..Len(backend) : backend[j].data[OutIx(op)] = mine

\* a call with the output supplied, overwrite false, that ran the backend
\* and returned the copy
C6_Witness ==
    /\ py.pc = "returned" /\ OutputGiven /\ ~py.given.overwrite
    /\ Invoked /\ backend[1].data[OutIx(op)] = <<"pycopy", OutIx(op)>>
    /\ py.ret[1].buf = <<"pycopy", OutIx(op)>>

-----------------------------------------------------------------------------
(* Properties of GpuArray_r<op> called directly: the error returned *)

DirectCall == py.pc = "none"

InputDefect == \E i \in Inputs : Defect(i)

OutputDefect == \E i \in Outputs : Defect(i)

CopyTried(i) == env.copy[i] # Undef

(* C7 as stated: with nocopy set, any call with an input that has the       *)
(* contiguity defect fails with the copy error; taken here on the calls     *)
(* whose element types, ranks and alignment are in order.                   *)
C7_Original ==
    (DirectCall /\ Done /\ arg.nocopy /\ ArgumentsValid /\ InputDefect) =>
      err = GA_COPY_ERROR

(* C7, amended: a fallback copy is made only of an input array with the     *)
(* contiguity defect and only when nocopy is not set; with nocopy set no    *)
(* buffer is allocated, and a call with such an input that passes the       *)
(* type, rank, alignment and dimension checks fails with the copy error;    *)
(* an output array with the defect is never copied and makes the call       *)
(* fail whatever nocopy is.                                                 *)
C7_FallbackCopy ==
    (DirectCall /\ RanksRight) =>
      /\ \A i \in ArrayIx :
           (CopyTried(i) \/ heap[i].allocs > 0 \/ ptr[i] = "copy") =>
             i \in Inputs /\ Defect(i) /\ ~arg.nocopy
      /\ (Done /\ arg.nocopy /\ InputDefect /\ ArgumentsValid /\ SizesAgree) =>
           err = GA_COPY_ERROR
      /\ (Done /\ OutputDefect) => err # GA_NO_ERROR /\ ~Invoked

\* a call refused under nocopy for its second input, nothing allocated
C7_Witness ==
    /\ DirectCall /\ Done /\ RanksRight
    /\ arg.nocopy /\ ~Defect(1) /\ Defect(2) /\ 2 \in Inputs
    /\ err = GA_COPY_ERROR
    /\ \A i \in ArrayIx : heap[i].allocs = 0 /\ ~CopyTried(i)

\* the error a call with an array of the wrong rank returns
ShapeError == GA_VALUE_ERROR

(* C8 as stated: a disagreement of element types is told from a wrong rank  *)
(* by the error returned.                                                   *)
C8_Original ==
    (DirectCall /\ Done /\ FirstSupported /\ RanksRight /\ ~TypesAgree) =>
      err # ShapeError

(* C8, amended: a call whose first array is neither single nor double       *)
(* precision fails with GA_INVALID_ERROR; otherwise a call with an array    *)
(* of the wrong rank or of an element type other than the first array's     *)
(* fails with GA_VALUE_ERROR, the same error for both; otherwise a call     *)
(* with an unaligned array fails with GA_UNALIGNED_ERROR.  None of them     *)
(* makes a copy or reaches the backend.                                     *)
C8_ArgumentErrors ==
    (DirectCall /\ Done /\ ~ArgumentsValid) =>
      /\ err = IF ~FirstSupported THEN GA_INVALID_ERROR
               ELSE IF ~RanksRight \/ ~TypesAgree THEN GA_VALUE_ERROR
               ELSE GA_UNALIGNED_ERROR
      /\ ~Invoked
      /\ \A i \in ArrayIx : heap[i].allocs = 0

\* a call whose ranks are right and whose element types disagree
C8_Witness ==
    /\ DirectCall /\ Done /\ FirstSupported /\ RanksRight /\ ~TypesAgree
    /\ ~AllAligned
    /\ err = GA_VALUE_ERROR

\* every matrix the backend is to read is flagged column- or row-major
LayoutKnown ==
    \A i \in 1..N :
       array_args(op)[i].cls = "matrix" => P(i).flags \cap Contiguous # {}

\* the first array argument, in order, at which the contiguity fallback
\* stops the call, and the error it stops with; 0 when it stops at none
FallbackStop ==
    LET stops == {i \in 1..N :
                    Defect(i) /\ (i \in Outputs \/ arg.nocopy
                                  \/ env.copy[i] \notin {Undef, GA_NO_ERROR})}
    IN  IF stops = {} THEN 0
        ELSE CHOOSE i \in stops : \A j \in stops : i <= j

FallbackError(i) ==
    IF i \in Outputs THEN GA_VALUE_ERROR
    ELSE IF arg.nocopy THEN GA_COPY_ERROR
    ELSE env.copy[i]

(* C10 as stated: a call with a non-contiguous input, nocopy set and        *)
(* mismatched dimensions returns the copy error, the fallback coming        *)
(* before the dimension check.                                              *)
C10_Original ==
    (DirectCall /\ Done /\ ArgumentsValid /\ arg.nocopy /\ InputDefect
       /\ ~SizesAgree) =>
      err = GA_COPY_ERROR

(* C10, amended: every call runs the steps in the order element type of     *)
(* the first array, rank and type agreement, alignment, dimension check,    *)
(* contiguity fallback (array by array), storage-order detection, context   *)
(* and table lookup, backend setup, backend entry, and returns the error    *)
(* of the earliest step in that order that fails; a call with a             *)
(* non-contiguous input, nocopy set and mismatched dimensions returns the   *)
(* dimension error; the backend entry is invoked at most once, and only     *)
(* if every earlier step and the setup succeeded.                           *)
C10_FirstError ==
    DirectCall =>
      /\ Done =>
           err = IF ~FirstSupported THEN GA_INVALID_ERROR
                 ELSE IF ~RanksRight \/ ~TypesAgree THEN GA_VALUE_ERROR
                 ELSE IF ~AllAligned THEN GA_UNALIGNED_ERROR
                 ELSE IF ~SizesAgree THEN GA_VALUE_ERROR
                 ELSE IF FallbackStop # 0 THEN FallbackError(FallbackStop)
                 ELSE IF ~LayoutKnown THEN GA_VALUE_ERROR
                 ELSE IF env.ctx # GA_NO_ERROR THEN env.ctx
                 ELSE IF env.ops # GA_NO_ERROR THEN env.ops
                 ELSE IF env.setup # GA_NO_ERROR THEN env.setup
                 ELSE env.call
      /\ Len(backend) <= 1
      /\ Invoked =>
           /\ ArgumentsValid /\ SizesAgree /\ FallbackStop = 0 /\ LayoutKnown
           /\ \A i \in 1..N : Defect(i) => env.copy[i] = GA_NO_ERROR
           /\ env.ctx = GA_NO_ERROR /\ env.ops = GA_NO_ERROR
           /\ env.setup = GA_NO_ERROR

\* the call of the stated case, returning the dimension error
C10_Witness ==
    /\ DirectCall /\ Done /\ ArgumentsValid
    /\ arg.nocopy /\ InputDefect /\ ~SizesAgree
    /\ err = GA_VALUE_ERROR
    /\ ~Invoked

-----------------------------------------------------------------------------
(* Vocabulary of the properties of the rendered lists *)

\* the lists rendered so far
Lists == {rendered.out[i] : i \in 1..Len(rendered.out)}

\* the piece stands for the storage order
IsOrder(pc_) ==
    \/ pc_.form = "param" /\ pc_.type = "cb_order"
    \/ pc_.form = "macro" /\ pc_.macro = "ORDER"
    \/ pc_.form = "var" /\ pc_.name = <<"o">>

CarriesOrder(l) == Len(l.pieces) > 0 /\ IsOrder(l.pieces[1])

\* the pieces after the storage order
Rest(l) == IF CarriesOrder(l) THEN Tail(l.pieces) ELSE l.pieces

Declared(x) == {OPS[x].arguments[i] : i \in 1..Len(OPS[x].arguments)}

Nobody == [name |-> <<>>, part |-> "none"]

Whole(nm) == [name |-> nm, part |-> "whole"]

StartsWithOff(nm) == Len(nm) > 3 /\ SubSeq(nm, 1, 3) = <<"o","f","f">>

Front(nm) == SubSeq(nm, 1, Len(nm) - 1)

\* the declared argument a piece stands for, and the part of it: the whole
\* argument, or the buffer or the offset of an array
Denotes(x, pc_) ==
    CASE pc_.form = "param" ->
           IF pc_.type = "gpudata *" THEN [name |-> pc_.name, part |-> "buffer"]
           ELSE IF StartsWithOff(pc_.name)
                THEN [name |-> SubSeq(pc_.name, 4, Len(pc_.name)), part |-> "offset"]
                ELSE Whole(pc_.name)
      [] pc_.form = "macro" -> Whole(pc_.name)
      [] pc_.form = "cast" -> Whole(pc_.name)
      [] pc_.form = "var" ->
           \* a local of the pipeline: the flag itself, or the size computed by
           \* check_dims and setup_order under the lower-case name
           LET meant == {a \in Declared(x) :
                           /\ a.cls \in {"size", "trans"}
                           /\ \/ a.name = pc_.name
                              \/ a.cls = "size" /\ lower(a.name) = pc_.name}
           IN  IF Cardinality(meant) = 1
               THEN Whole((CHOOSE a \in meant : TRUE).name)
               ELSE Nobody
      [] pc_.form = "field" ->
           IF pc_.field = "data"
           THEN [name |-> Front(pc_.name), part |-> "buffer"]
           ELSE IF pc_.field = "offset / elsize"
           THEN [name |-> Front(pc_.name), part |-> "offset"]
           ELSE \* the stride of an array is the increment declared for it
                LET meant == {a \in Declared(x) :
                                a.cls = "inc" /\ a.name = <<"i","n","c">> \o Front(pc_.name)}
                IN  IF Cardinality(meant) = 1
                    THEN Whole((CHOOSE a \in meant : TRUE).name)
                    ELSE Nobody

\* what a list of the surface has to enumerate for the declared arguments:
\* an array is one piece of the forwarding call and a buffer and an offset
\* elsewhere
RECURSIVE Enumeration(_, _)
Enumeration(surface, args) ==
    IF args = <<>> THEN <<>>
    ELSE LET a == Head(args)
         IN  (IF isarray(a) /\ surface # "format_call_args"
              THEN << [name |-> a.name, part |-> "buffer"],
                      [name |-> a.name, part |-> "offset"] >>
              ELSE << Whole(a.name) >>)
             \o Enumeration(surface, Tail(args))

InOrder(l) ==
    [i \in 1..Len(Rest(l)) |-> Denotes(l.op, Rest(l)[i])]
        = Enumeration(l.surface, OPS[l.op].arguments)

GenerationDone == rendered.k > Len(Plan)

\* C9: every rendered list -- the declaration of the native entry in the
\* generic layer and in the dispatch table for each element type, the
\* forwarding call of the generic layer, and the arguments the pipeline passes
\* to the dispatch-table entry for each element type -- enumerates the declared
\* arguments of its operation in the declared order, none left out or moved,
\* and has the storage order first exactly when the operation has a matrix
\* argument.
C9_SameOrder ==
    \A l \in Lists :
      /\ CarriesOrder(l) <=> has_order(l.op)
      /\ InOrder(l)

\* all the lists of the three operations are rendered: two declarations per
\* surface pair, and one list per element type in the table and the pipeline
C9_Witness ==
    /\ GenerationDone
    /\ \A x \in OpNames :
         /\ \A t \in {"float", "double"} :
              /\ \E l \in Lists : l.op = x /\ l.tmpl = "BUFFERBLAS_TMPL" /\ l.ctype = t
              /\ \E l \in Lists : l.op = x /\ l.tmpl = "ARRAYBLAS_TMPL" /\ l.ctype = t
         /\ \E l \in Lists : l.op = x /\ l.surface = "format_call_args"
         /\ \E l \in Lists : l.op = x /\ l.tmpl = "GENERIC_TMPL"
                             /\ l.surface = "format_arguments"

-----------------------------------------------------------------------------
(* Properties of the fallback copies during a call *)

\* the array arguments whose fallback copy is allocated and not yet cleared
LiveCopies == {i \in ArrayIx : Live(i) > 0}

(* C11 as stated: at every point of a call at most one fallback copy is     *)
(* live, for every operation.                                               *)
C11_Original ==
    Entered => Cardinality(LiveCopies) <= 1

(* C11, amended: at every point of a call each input array has at most one  *)
(* fallback copy, its own copy<name>, live from the moment it is made until *)
(* the cleanup; so as many copies are live at once as input arrays had the  *)
(* contiguity defect so far -- two for a gemm, gemv or ger whose two inputs *)
(* both need the fallback -- never one of an output, never one under        *)
(* nocopy, and none after the return.                                       *)
C11_LiveCopies ==
    Entered =>
      /\ \A i \in ArrayIx :
           /\ Live(i) \in {0, 1}
           /\ Live(i) = 1 <=> (ptr[i] = "copy" /\ ~Done)
           /\ Live(i) = 1 => i \in Inputs /\ Defect(i) /\ ~arg.nocopy
      /\ Cardinality(LiveCopies) <= Cardinality(Inputs)
      /\ pc \in {"order", "ctx", "ops", "setup", "call"} =>
           LiveCopies = {i \in Inputs : Defect(i)}
      /\ Done => LiveCopies = {}

\* a gemm whose A and B were both copied, at the call of the backend entry
\* with both copies live
C11_Witness ==
    /\ op = "gemm" /\ pc = "call"
    /\ ~arg.nocopy /\ Defect(1) /\ Defect(2)
    /\ LiveCopies = {1, 2}
    /\ ptr[1] = "copy" /\ ptr[2] = "copy"

============================================================================
